---- MODULE Spec2Model ----
(***************************************************************************)
(* State-machine model of the MediaPlayer class of src/script.js: the      *)
(* playlist, the current index, the mounted media element, the playback    *)
(* flags, the set of object URLs, the scrub state and the two localStorage *)
(* entries, driven by the DOM / media-element events the class binds.      *)
(*                                                                         *)
(* Every method of the class is an operator from a state record to a state *)
(* record (so that a handler which calls loadMedia, updatePlaylist and     *)
(* saveState is one atomic step); every event handler is one action.       *)
(***************************************************************************)
EXTENDS Integers, Sequences, FiniteSets, TLC

\* ---------------------------------------------------------------- bounds
\* Longest playlist the model builds.
MaxPlaylist == 3
\* Longest FileList handed to handleFiles in one drop / selection.
MaxBatch == 2
\* Number of URL.createObjectURL calls (= media elements created) in a run.
MaxUrls == 3
\* Math.random() is drawn from {0/RandomGrain, ..., (RandomGrain-1)/RandomGrain}.
RandomGrain == 4

\* progressBar.getBoundingClientRect(): left edge and width, in pixels.
BarLeft == 1
BarWidth == 2
\* el.duration of every playable file once its metadata is known, in seconds:
\* the bar shows one second per pixel, so every pointer position is a whole
\* second and percent * duration is computed exactly.
Duration == BarWidth
\* Step of the ArrowLeft / ArrowRight shortcut, in seconds.
SeekStep == 5
\* Step of the ArrowUp / ArrowDown shortcut and the range of the slider.
VolumeStep == 10
VolumeMax == 100

Min2(a, b) == IF a < b THEN a ELSE b
Max2(a, b) == IF a > b THEN a ELSE b

\* ------------------------------------------------------------------ files
\* File objects the user can pick.  A MIME type is the sequence of its
\* characters, so that startsWith and split('/') are computed, not assumed.
FileIds == 1..3

FileType(f) ==
  CASE f = 1 -> <<"a","u","d","i","o","/","m","p","3">>
    [] f = 2 -> <<"i","m","a","g","e","/","p","n","g">>
    [] OTHER -> <<"t","e","x","t","/","p","l","a","i","n">>

FileName(f) ==
  CASE f = 1 -> "song.mp3"
    [] f = 2 -> "cover.png"
    [] OTHER -> "notes.txt"

FileSize(f) ==
  CASE f = 1 -> 3000
    [] f = 2 -> 500
    [] OTHER -> 12

\* String.prototype.startsWith
StartsWith(s, p) == Len(s) >= Len(p) /\ SubSeq(s, 1, Len(p)) = p

\* s.split('/')[0]
SplitSlashHead(s) ==
  LET at == {i \in 1..Len(s) : s[i] = "/"}
  IN  IF at = {} THEN s
      ELSE SubSeq(s, 1, (CHOOSE i \in at : \A j \in at : i <= j) - 1)

VideoPrefix == <<"v","i","d","e","o","/">>
AudioPrefix == <<"a","u","d","i","o","/">>
ImagePrefix == <<"i","m","a","g","e","/">>

\* The filter predicate of handleFiles.
IsMediaFileAnyType(f) == Len(FileType(f)) > 0
IsMediaFile(f) ==
  \/ StartsWith(FileType(f), VideoPrefix)
  \/ StartsWith(FileType(f), AudioPrefix)
  \/ StartsWith(FileType(f), ImagePrefix)

\* (file.type || '').split('/')[0] || 'unknown'
MajorType(f) ==
  LET head == SplitSlashHead(FileType(f))
  IN  IF head = <<>> THEN <<"u","n","k","n","o","w","n">> ELSE head

\* tagName of document.createElement(type)
TagOfNoImage(major) ==
  CASE major = <<"a","u","d","i","o">> -> "AUDIO"
    [] major = <<"v","i","d","e","o">> -> "VIDEO"
    [] OTHER -> "NONE"
TagOf(major) ==
  CASE major = <<"i","m","a","g","e">> -> "IMG"
    [] major = <<"a","u","d","i","o">> -> "AUDIO"
    [] major = <<"v","i","d","e","o">> -> "VIDEO"
    [] OTHER -> "NONE"

\* ------------------------------------------------------- String / Number
DigitChars == <<"0","1","2","3","4","5","6","7","8","9">>

RECURSIVE NatToStr(_)
NatToStr(n) ==
  IF n < 10 THEN <<DigitChars[n + 1]>>
  ELSE NatToStr(n \div 10) \o <<DigitChars[(n % 10) + 1]>>

\* String(n) for an integer n
StringOf(n) == IF n < 0 THEN <<"-">> \o NatToStr(0 - n) ELSE NatToStr(n)

IsDigits(s) ==
  /\ Len(s) > 0
  /\ \A i \in 1..Len(s) : \E d \in 1..10 : DigitChars[d] = s[i]

DigitVal(c) == (CHOOSE d \in 1..10 : DigitChars[d] = c) - 1

RECURSIVE DigitsToNat(_)
DigitsToNat(s) ==
  IF Len(s) = 0 THEN 0
  ELSE 10 * DigitsToNat(SubSeq(s, 1, Len(s) - 1)) + DigitVal(s[Len(s)])

\* isFinite(Number(s)) on the strings the model stores: decimal integers
\* are numbers, anything else is NaN.
IsNumeric(s) ==
  \/ IsDigits(s)
  \/ Len(s) > 1 /\ s[1] = "-" /\ IsDigits(Tail(s))

\* Number(s) where IsNumeric(s)
NumberOf(s) == IF s[1] = "-" THEN 0 - DigitsToNat(Tail(s)) ELSE DigitsToNat(s)

\* ------------------------------------------------------------- constants
NoError == "none"
NoFilesMsg == "No supported media files found"
UnsupportedMsg == "Unsupported file type"
PlayFailedMsg == "Unable to play media (autoplay blocked?)"

\* handleMediaError: message for MediaError.code (0: no error object)
MediaErrorMsg(code) ==
  CASE code = 1 -> "Media playback was aborted"
    [] code = 2 -> "Network error while loading media"
    [] code = 3 -> "Media decoding failed"
    [] code = 4 -> "Media format not supported"
    [] OTHER -> "Unable to play this media file"

\* this.currentMedia === null
NoMedia ==
  [id |-> 0, tag |-> "NULL", file |-> 0, paused |-> TRUE, currentTime |-> 0,
   ready |-> FALSE, muted |-> FALSE, volume |-> 0]

IsPlayable(el) == el.tag \in {"AUDIO", "VIDEO"}

\* {name, type, size} of a File, as saveState serialises it
MetaOf(f) == [name |-> FileName(f), type |-> FileType(f), size |-> FileSize(f)]

VARIABLES
  playlist,       \* this.playlist: sequence of File objects
  currentIndex,   \* this.currentIndex
  isPlaying,      \* this.isPlaying
  loop,           \* this.loop
  shuffle,        \* this.shuffle
  objectUrls,     \* this.objectUrls: Set of URLs
  currentMedia,   \* this.currentMedia: the element and its attributes, or NoMedia
  thumbDragging,  \* this.thumbDragging
  mounted,        \* media elements that are children of #mediaDisplay
  error,          \* text of the .error-message panel, or NoError
  playlistEl,     \* #playlist: shown?, number of Play buttons, highlighted index
  progressFill,   \* #progressFill style.width, in percent
  volumeSlider,   \* #volumeSlider value
  store,          \* localStorage: ump_playlist_meta and ump_index
  nextUrl,        \* the next URL URL.createObjectURL returns
  revoked,        \* URLs passed to URL.revokeObjectURL so far
  pending,        \* elements with an unsettled play() promise of togglePlay
  event,          \* the event whose handler ran last
  outcome         \* what that handler did

vars ==
  <<playlist, currentIndex, isPlaying, loop, shuffle, objectUrls, currentMedia,
    thumbDragging, mounted, error, playlistEl, progressFill, volumeSlider,
    store, nextUrl, revoked, pending, event, outcome>>

\* ------------------------------------------------------- the state record
\* What a handler has done so far; reset when a handler starts.
Fresh ==
  [loaded |-> FALSE, file |-> 0, threw |-> FALSE, released |-> {},
   seeked |-> FALSE, target |-> 0]

\* The state as a record, so that methods compose.
Cur ==
  [playlist |-> playlist, currentIndex |-> currentIndex, isPlaying |-> isPlaying,
   loop |-> loop, shuffle |-> shuffle, objectUrls |-> objectUrls,
   currentMedia |-> currentMedia, thumbDragging |-> thumbDragging,
   mounted |-> mounted, error |-> error, playlistEl |-> playlistEl,
   progressFill |-> progressFill, volumeSlider |-> volumeSlider, store |-> store,
   nextUrl |-> nextUrl, revoked |-> revoked, pending |-> pending, out |-> Fresh]

\* The state after a handler that ended in state record s, for event ev.
Commit(s, ev) ==
  /\ playlist' = s.playlist
  /\ currentIndex' = s.currentIndex
  /\ isPlaying' = s.isPlaying
  /\ loop' = s.loop
  /\ shuffle' = s.shuffle
  /\ objectUrls' = s.objectUrls
  /\ currentMedia' = s.currentMedia
  /\ thumbDragging' = s.thumbDragging
  /\ mounted' = s.mounted
  /\ error' = s.error
  /\ playlistEl' = s.playlistEl
  /\ progressFill' = s.progressFill
  /\ volumeSlider' = s.volumeSlider
  /\ store' = s.store
  /\ nextUrl' = s.nextUrl
  /\ revoked' = s.revoked
  /\ pending' = s.pending
  /\ outcome' = s.out
  /\ event' = ev

\* An event: its type and what the handler reads from it (clientX or the
\* data-idx of the clicked button, the FileList, the key).
Ev(type, x, files, key) == [type |-> type, x |-> x, files |-> files, key |-> key]

\* this.playlist[i] (0-based); 0 stands for undefined.
FileAt(s, i) == IF i \in 0..(Len(s.playlist) - 1) THEN s.playlist[i + 1] ELSE 0

\* JavaScript's % : the sign of the result is the sign of the dividend.
JsMod(a, n) == IF a >= 0 THEN a % n ELSE 0 - ((0 - a) % n)

\* Math.floor(Math.random() * n), Math.random() being r / RandomGrain
RandomIndexCeil(r, n) == (r * n + RandomGrain - 1) \div RandomGrain
RandomIndex(r, n) == (r * n) \div RandomGrain

\* ---------------------------------------------------------------- methods
clearError(s) == [s EXCEPT !.error = NoError]

showErrorReplacesDisplay(s, message) ==
  [clearError(s) EXCEPT !.error = message, !.mounted = {}, !.currentMedia = NoMedia]
showError(s, message) == [clearError(s) EXCEPT !.error = message]

updatePlaylist(s) ==
  IF Len(s.playlist) <= 1
  THEN [s EXCEPT !.playlistEl = [show |-> FALSE, buttons |-> 0, active |-> -1]]
  ELSE [s EXCEPT !.playlistEl =
          [show |-> TRUE, buttons |-> Len(s.playlist),
           active |-> IF s.currentIndex \in 0..(Len(s.playlist) - 1)
                      THEN s.currentIndex ELSE -1]]

saveState(s) ==
  [s EXCEPT !.store =
     [meta |-> [kind |-> "json",
                items |-> [i \in 1..Len(s.playlist) |-> MetaOf(s.playlist[i])]],
      index |-> StringOf(s.currentIndex)]]

\* el.currentTime = t: NaN is a TypeError; before the metadata is known the
\* value is only remembered as the start position; otherwise the platform
\* seeks to t, limited to the media's range.
SetCurrentTime(s, t, isNaN) ==
  IF isNaN THEN [s EXCEPT !.out.threw = TRUE]
  ELSE LET s1 == [s EXCEPT !.out.seeked = TRUE, !.out.target = t]
       IN  IF s.currentMedia.ready
           THEN [s1 EXCEPT !.currentMedia.currentTime = Max2(0, Min2(Duration, t))]
           ELSE s1

updateProgress(s) ==
  IF s.currentMedia = NoMedia \/ s.currentMedia.tag = "IMG" THEN s
  ELSE IF ~s.currentMedia.ready THEN s
  ELSE [s EXCEPT !.progressFill = (s.currentMedia.currentTime * 100) \div Duration]

\* loadMedia, "stop previous": pause() on the element being replaced
stopPreviousRevokes(s) ==
  IF s.currentMedia # NoMedia
  THEN [s EXCEPT !.currentMedia.paused = TRUE,
                 !.objectUrls = @ \ {s.currentMedia.id},
                 !.revoked = @ \cup {s.currentMedia.id}]
  ELSE s
stopPrevious(s) ==
  IF s.currentMedia # NoMedia /\ IsPlayable(s.currentMedia)
  THEN [s EXCEPT !.currentMedia.paused = TRUE] ELSE s

\* loadMedia, "remove element": take it out of the DOM and forget it
removeElementKeepsNode(s) ==
  IF s.currentMedia # NoMedia THEN [s EXCEPT !.currentMedia = NoMedia] ELSE s
removeElement(s) ==
  IF s.currentMedia # NoMedia
  THEN [s EXCEPT !.mounted = @ \ {s.currentMedia.id}, !.currentMedia = NoMedia]
  ELSE s

loadMedia(s, file) ==
  LET s3 == removeElement(stopPrevious(clearError(s)))
  IN  IF file = 0 THEN [s3 EXCEPT !.out.threw = TRUE]
      ELSE
      LET tag == TagOf(MajorType(file))
          url == s3.nextUrl
          el == [id |-> url, tag |-> tag, file |-> file, paused |-> TRUE,
                 currentTime |-> 0, ready |-> FALSE, muted |-> FALSE,
                 volume |-> IF tag = "IMG" THEN 0 ELSE s3.volumeSlider]
      IN  IF tag = "NONE" THEN showError(s3, UnsupportedMsg)
          ELSE updatePlaylist(
                 [s3 EXCEPT !.nextUrl = url + 1,
                            !.objectUrls = @ \cup {url},
                            !.currentMedia = el,
                            !.mounted = @ \cup {url},
                            !.out.loaded = TRUE,
                            !.out.file = file])

\* f(s) unless an exception is already propagating
Then(s, f(_)) == IF s.out.threw THEN s ELSE f(s)

handleFilesAlwaysLoads(s, files) ==
  LET mediaFiles == SelectSeq(files, IsMediaFile)
  IN  IF Len(mediaFiles) = 0 THEN showError(s, NoFilesMsg)
      ELSE
      LET s1 == [s EXCEPT !.playlist = @ \o mediaFiles]
      IN  IF Len(s1.playlist) = 0 THEN s1
          ELSE
          LET s2 == loadMedia([s1 EXCEPT !.currentIndex = 0], FileAt(s1, 0))
          IN  Then(Then(s2, updatePlaylist), saveState)
handleFilesKeepIndex(s, files) ==
  LET mediaFiles == SelectSeq(files, IsMediaFile)
  IN  IF Len(mediaFiles) = 0 THEN showError(s, NoFilesMsg)
      ELSE
      LET s1 == [s EXCEPT !.playlist = @ \o mediaFiles]
      IN  IF Len(s1.playlist) = 0 THEN s1
          ELSE
          LET s2 == IF s1.currentMedia = NoMedia
                    THEN loadMedia(s1, FileAt(s1, 0))
                    ELSE s1
          IN  Then(Then(s2, updatePlaylist), saveState)
handleFilesReplace(s, files) ==
  LET mediaFiles == SelectSeq(files, IsMediaFile)
  IN  IF Len(mediaFiles) = 0 THEN showError(s, NoFilesMsg)
      ELSE
      LET s1 == [s EXCEPT !.playlist = mediaFiles]
          s2 == IF s1.currentMedia = NoMedia
                THEN loadMedia([s1 EXCEPT !.currentIndex = 0], FileAt(s1, 0))
                ELSE s1
      IN  Then(Then(s2, updatePlaylist), saveState)
handleFiles(s, files) ==
  LET mediaFiles == SelectSeq(files, IsMediaFile)
  IN  IF Len(mediaFiles) = 0 THEN showError(s, NoFilesMsg)
      ELSE
      LET s1 == [s EXCEPT !.playlist = @ \o mediaFiles]
      IN  IF Len(s1.playlist) = 0 THEN s1
          ELSE
          LET s2 == IF s1.currentMedia = NoMedia
                    THEN loadMedia([s1 EXCEPT !.currentIndex = 0], FileAt(s1, 0))
                    ELSE s1
          IN  Then(Then(s2, updatePlaylist), saveState)

\* el.play() from togglePlay.  allowed = FALSE: the platform refuses to start
\* (NotAllowedError) and the element stays paused.  Either way the promise is
\* settled later.
togglePlay(s, allowed) ==
  IF s.currentMedia = NoMedia \/ s.currentMedia.tag = "IMG" THEN s
  ELSE IF s.isPlaying
       THEN [s EXCEPT !.currentMedia.paused = TRUE, !.isPlaying = FALSE]
       ELSE [s EXCEPT !.currentMedia.paused = IF allowed THEN FALSE ELSE @,
                      !.pending = @ \cup {s.currentMedia.id},
                      !.isPlaying = TRUE]

playPreviousNoWrap(s, r) ==
  IF Len(s.playlist) = 0 THEN s
  ELSE LET n == Len(s.playlist)
           s1 == IF s.shuffle
                 THEN [s EXCEPT !.currentIndex = RandomIndex(r, n)]
                 ELSE [s EXCEPT !.currentIndex = JsMod(@ - 1, n)]
       IN  Then(loadMedia(s1, FileAt(s1, s1.currentIndex)), saveState)
playPrevious(s, r) ==
  IF Len(s.playlist) = 0 THEN s
  ELSE LET n == Len(s.playlist)
           s1 == IF s.shuffle
                 THEN [s EXCEPT !.currentIndex = RandomIndex(r, n)]
                 ELSE [s EXCEPT !.currentIndex = JsMod(@ - 1 + n, n)]
       IN  Then(loadMedia(s1, FileAt(s1, s1.currentIndex)), saveState)

playNext(s, r) ==
  IF Len(s.playlist) = 0 THEN s
  ELSE LET n == Len(s.playlist)
           s1 == IF s.shuffle
                 THEN [s EXCEPT !.currentIndex = RandomIndex(r, n)]
                 ELSE [s EXCEPT !.currentIndex = JsMod(@ + 1, n)]
       IN  Then(loadMedia(s1, FileAt(s1, s1.currentIndex)), saveState)

\* The 'ended' listener.  The play() of the loop branch starts the element
\* again; its promise has no handler.
onMediaEndedFallsThrough(s, r) ==
  IF s.loop /\ s.currentMedia # NoMedia /\ s.currentMedia.tag # "IMG"
  THEN playNext([SetCurrentTime(s, 0, FALSE) EXCEPT !.currentMedia.paused = FALSE], r)
  ELSE playNext(s, r)
onMediaEnded(s, r) ==
  IF s.loop
  THEN IF s.currentMedia = NoMedia THEN [s EXCEPT !.out.threw = TRUE]
       ELSE LET s1 == SetCurrentTime(s, 0, FALSE)
            IN  IF s1.currentMedia.tag = "IMG" THEN [s1 EXCEPT !.out.threw = TRUE]
                ELSE [s1 EXCEPT !.currentMedia.paused = FALSE]
  ELSE playNext(s, r)

playItemNoSave(s, i) ==
  LET s1 == [s EXCEPT !.currentIndex = i]
  IN  loadMedia(s1, FileAt(s1, i))
\* The click listener of the Play button of playlist item i.
playItem(s, i) ==
  LET s1 == [s EXCEPT !.currentIndex = i]
  IN  Then(loadMedia(s1, FileAt(s1, i)), saveState)

handleMediaError(s, code) == showError(s, MediaErrorMsg(code))

toggleMuteOnImage(s) ==
  IF s.currentMedia = NoMedia THEN s
  ELSE [s EXCEPT !.currentMedia.muted = ~@]
toggleMute(s) ==
  IF s.currentMedia = NoMedia \/ s.currentMedia.tag = "IMG" THEN s
  ELSE [s EXCEPT !.currentMedia.muted = ~@]

setVolume(s, value) ==
  IF s.currentMedia = NoMedia \/ s.currentMedia.tag = "IMG" THEN s
  ELSE [s EXCEPT !.currentMedia.volume = value]

toggleLoop(s) == [s EXCEPT !.loop = ~@]

toggleShuffle(s) == [s EXCEPT !.shuffle = ~@]

\* Math.max(0, Math.min(1, (clientX - rect.left) / rect.width)), as the
\* numerator of a fraction over BarWidth.
seekNoClamp(s, clientX) ==
  IF s.currentMedia = NoMedia \/ s.currentMedia.tag = "IMG" THEN s
  ELSE LET percent == clientX - BarLeft
           s1 == SetCurrentTime(s, (percent * Duration) \div BarWidth,
                                ~s.currentMedia.ready)
       IN  Then(s1, updateProgress)
seek(s, clientX) ==
  IF s.currentMedia = NoMedia \/ s.currentMedia.tag = "IMG" THEN s
  ELSE LET percent == Max2(0, Min2(BarWidth, clientX - BarLeft))
           s1 == SetCurrentTime(s, (percent * Duration) \div BarWidth,
                                ~s.currentMedia.ready)
       IN  Then(s1, updateProgress)

startThumbDrag(s) == [s EXCEPT !.thumbDragging = TRUE]

onThumbMoveSeeks(s, clientX) ==
  IF ~s.thumbDragging \/ s.currentMedia = NoMedia \/ s.currentMedia.tag = "IMG"
  THEN s
  ELSE LET pct == Max2(0, Min2(BarWidth, clientX - BarLeft))
       IN  SetCurrentTime([s EXCEPT !.progressFill = (pct * 100) \div BarWidth],
                          (pct * Duration) \div BarWidth, ~s.currentMedia.ready)
onThumbMove(s, clientX) ==
  IF ~s.thumbDragging \/ s.currentMedia = NoMedia \/ s.currentMedia.tag = "IMG"
  THEN s
  ELSE LET pct == Max2(0, Min2(BarWidth, clientX - BarLeft))
       IN  [s EXCEPT !.progressFill = (pct * 100) \div BarWidth]

endThumbDrag(s, clientX) ==
  IF ~s.thumbDragging THEN s
  ELSE LET s1 == [s EXCEPT !.thumbDragging = FALSE]
       IN  IF s1.currentMedia = NoMedia \/ s1.currentMedia.tag = "IMG" THEN s1
           ELSE LET pct == Max2(0, Min2(BarWidth, clientX - BarLeft))
                IN  SetCurrentTime(s1, (pct * Duration) \div BarWidth,
                                   ~s1.currentMedia.ready)

handleKeyboardNoClamp(s, key, allowed) ==
  IF s.currentMedia = NoMedia \/ s.currentMedia.tag = "IMG" THEN s
  ELSE CASE key = " " -> togglePlay(s, allowed)
         [] key = "ArrowLeft" ->
              SetCurrentTime(s, Max2(0, s.currentMedia.currentTime - SeekStep), FALSE)
         [] key = "ArrowRight" ->
              SetCurrentTime(s, Min2(Duration, s.currentMedia.currentTime + SeekStep),
                             ~s.currentMedia.ready)
         [] key = "ArrowUp" ->
              LET v == s.volumeSlider + VolumeStep
              IN  setVolume([s EXCEPT !.volumeSlider = v], v)
         [] key = "ArrowDown" ->
              LET v == Max2(0, s.volumeSlider - VolumeStep)
              IN  setVolume([s EXCEPT !.volumeSlider = v], v)
         [] OTHER -> s
handleKeyboard(s, key, allowed) ==
  IF s.currentMedia = NoMedia \/ s.currentMedia.tag = "IMG" THEN s
  ELSE CASE key = " " -> togglePlay(s, allowed)
         [] key = "ArrowLeft" ->
              SetCurrentTime(s, Max2(0, s.currentMedia.currentTime - SeekStep), FALSE)
         [] key = "ArrowRight" ->
              SetCurrentTime(s, Min2(Duration, s.currentMedia.currentTime + SeekStep),
                             ~s.currentMedia.ready)
         [] key = "ArrowUp" ->
              LET v == Min2(VolumeMax, s.volumeSlider + VolumeStep)
              IN  setVolume([s EXCEPT !.volumeSlider = v], v)
         [] key = "ArrowDown" ->
              LET v == Max2(0, s.volumeSlider - VolumeStep)
              IN  setVolume([s EXCEPT !.volumeSlider = v], v)
         [] OTHER -> s

cleanupUrlsNoClear(s) ==
  [s EXCEPT !.revoked = @ \cup s.objectUrls, !.out.released = s.objectUrls]
cleanupUrls(s) ==
  [s EXCEPT !.revoked = @ \cup s.objectUrls,
            !.out.released = s.objectUrls,
            !.objectUrls = {}]

restoreState(s) ==
  IF s.store.meta.kind = "garbage" THEN s
  ELSE LET raw == IF s.store.index = <<>> THEN <<"0">> ELSE s.store.index
           s1 == IF s.store.meta.kind = "json" /\ Len(s.store.meta.items) > 0
                 THEN [s EXCEPT !.playlistEl =
                         [show |-> TRUE, buttons |-> 0, active |-> -1]]
                 ELSE s
       IN  [s1 EXCEPT !.currentIndex = IF IsNumeric(raw) THEN NumberOf(raw) ELSE 0]

\* new MediaPlayer(), localStorage holding st
InitialVolume == 50
constructor(st) ==
  restoreState(
    [playlist |-> <<>>, currentIndex |-> 0, isPlaying |-> FALSE, loop |-> FALSE,
     shuffle |-> FALSE, objectUrls |-> {}, currentMedia |-> NoMedia,
     thumbDragging |-> FALSE, mounted |-> {}, error |-> NoError,
     playlistEl |-> [show |-> FALSE, buttons |-> 0, active |-> -1],
     progressFill |-> 0, volumeSlider |-> InitialVolume, store |-> st,
     nextUrl |-> 1, revoked |-> {}, pending |-> {}, out |-> Fresh])

\* ------------------------------------------------------------ event inputs
\* FileLists of a drop or of the file picker.
Batches == UNION {[1..n -> FileIds] : n \in 0..MaxBatch}
\* Pointer positions: from left of the progress bar to right of it.
ClientXs == (BarLeft - 1)..(BarLeft + BarWidth + 1)
Keys == {" ", "ArrowLeft", "ArrowRight", "ArrowUp", "ArrowDown", "Enter"}
\* Values the user drags the volume slider to.
SliderValues == {0, VolumeMax}
ErrorCodes == 0..4
Randoms == 0..(RandomGrain - 1)

\* What localStorage can hold when the page is opened.
StoredStates ==
  { [meta |-> [kind |-> "absent", items |-> <<>>], index |-> <<>>],
    [meta |-> [kind |-> "json", items |-> <<MetaOf(1), MetaOf(2)>>],
     index |-> <<"1">>],
    [meta |-> [kind |-> "json", items |-> <<MetaOf(1)>>], index |-> <<"7">>],
    [meta |-> [kind |-> "json", items |-> <<>>], index |-> <<"-", "1">>],
    [meta |-> [kind |-> "absent", items |-> <<>>], index |-> <<"x">>],
    [meta |-> [kind |-> "garbage", items |-> <<>>], index |-> <<"2">>] }

\* The model's bounds: a step is taken only if it stays within them.
Fits(s) == Len(s.playlist) <= MaxPlaylist /\ s.nextUrl <= MaxUrls + 1

Step(s, ev) == Fits(s) /\ Commit(s, ev)

\* ---------------------------------------------------------------- actions
Init ==
  \E st \in StoredStates :
    LET s == constructor(st)
    IN  /\ playlist = s.playlist
        /\ currentIndex = s.currentIndex
        /\ isPlaying = s.isPlaying
        /\ loop = s.loop
        /\ shuffle = s.shuffle
        /\ objectUrls = s.objectUrls
        /\ currentMedia = s.currentMedia
        /\ thumbDragging = s.thumbDragging
        /\ mounted = s.mounted
        /\ error = s.error
        /\ playlistEl = s.playlistEl
        /\ progressFill = s.progressFill
        /\ volumeSlider = s.volumeSlider
        /\ store = s.store
        /\ nextUrl = s.nextUrl
        /\ revoked = s.revoked
        /\ pending = s.pending
        /\ outcome = s.out
        /\ event = Ev("construct", 0, <<>>, "")

\* 'drop' on the drop zone, 'change' of the file input
FilesChosen ==
  \E files \in Batches : Step(handleFiles(Cur, files), Ev("files", 0, files, ""))

\* 'click' on the play button
PlayClick ==
  \E allowed \in BOOLEAN : Step(togglePlay(Cur, allowed), Ev("play", 0, <<>>, ""))

PrevClick ==
  \E r \in IF shuffle THEN Randoms ELSE {0} : Step(playPrevious(Cur, r), Ev("prev", 0, <<>>, ""))

NextClick ==
  \E r \in IF shuffle THEN Randoms ELSE {0} : Step(playNext(Cur, r), Ev("next", 0, <<>>, ""))

\* 'click' on the Play button of a playlist item
ItemClick ==
  \E i \in 0..(playlistEl.buttons - 1) :
    Step(playItem(Cur, i), Ev("item", i, <<>>, ""))

MuteClick == Step(toggleMute(Cur), Ev("mute", 0, <<>>, ""))

\* 'input' of the volume slider: the slider has moved to v
VolumeInput ==
  \E v \in SliderValues :
    Step(setVolume([Cur EXCEPT !.volumeSlider = v], v), Ev("volume", v, <<>>, ""))

\* 'click' on the progress bar
ProgressClick ==
  \E x \in ClientXs : Step(seek(Cur, x), Ev("seek", x, <<>>, ""))

LoopClick == Step(toggleLoop(Cur), Ev("loop", 0, <<>>, ""))

ShuffleClick == Step(toggleShuffle(Cur), Ev("shuffle", 0, <<>>, ""))

\* 'mousedown' / 'touchstart' on the thumb
ThumbDown == Step(startThumbDrag(Cur), Ev("thumbdown", 0, <<>>, ""))

\* 'mousemove' / 'touchmove' on the window
PointerMove ==
  \E x \in ClientXs : Step(onThumbMove(Cur, x), Ev("move", x, <<>>, ""))

\* 'mouseup' / 'touchend' on the window
PointerUp ==
  \E x \in ClientXs : Step(endThumbDrag(Cur, x), Ev("up", x, <<>>, ""))

KeyDown ==
  \E key \in Keys, allowed \in BOOLEAN :
    Step(handleKeyboard(Cur, key, allowed), Ev("keydown", 0, <<>>, key))

\* 'beforeunload' (the page may stay open if the navigation is cancelled)
BeforeUnload == Step(cleanupUrls(Cur), Ev("unload", 0, <<>>, ""))

\* 'loadedmetadata' of the mounted element: its duration is known from now on
LoadedMetadata ==
  /\ IsPlayable(currentMedia)
  /\ ~currentMedia.ready
  /\ Step([Cur EXCEPT !.currentMedia.ready = TRUE], Ev("loadedmetadata", 0, <<>>, ""))

\* Playback advances by a second and fires 'timeupdate'
TimeUpdate ==
  /\ IsPlayable(currentMedia)
  /\ currentMedia.ready
  /\ ~currentMedia.paused
  /\ currentMedia.currentTime < Duration
  /\ Step(updateProgress([Cur EXCEPT !.currentMedia.currentTime = @ + 1]),
          Ev("timeupdate", 0, <<>>, ""))

\* Playback has reached the end: the platform pauses the element and fires
\* 'ended'
Ended ==
  /\ IsPlayable(currentMedia)
  /\ currentMedia.ready
  /\ ~currentMedia.paused
  /\ currentMedia.currentTime = Duration
  /\ \E r \in IF shuffle THEN Randoms ELSE {0} :
       Step(onMediaEnded([Cur EXCEPT !.currentMedia.paused = TRUE], r),
            Ev("ended", 0, <<>>, ""))

\* 'error' of the mounted element
MediaError ==
  /\ IsPlayable(currentMedia)
  /\ \E code \in ErrorCodes :
       Step(handleMediaError(Cur, code), Ev("error", code, <<>>, ""))

\* The play() promise of togglePlay is fulfilled: playback has started
PlayFulfilled ==
  \E id \in pending :
    /\ currentMedia.id = id
    /\ currentMedia.ready
    /\ ~currentMedia.paused
    /\ Step([Cur EXCEPT !.pending = @ \ {id}], Ev("playfulfilled", 0, <<>>, ""))

\* The play() promise of togglePlay is rejected (not allowed, aborted by a
\* pause or by the removal of the element, or no playable source): the
\* catch callback runs
PlayRejected ==
  \E id \in pending :
    /\ ~(currentMedia.id = id /\ currentMedia.ready /\ ~currentMedia.paused)
    /\ Step(showError([Cur EXCEPT !.pending = @ \ {id}], PlayFailedMsg),
            Ev("playrejected", id, <<>>, ""))

\* The first drop / selection only: files are chosen while the playlist is
\* still empty.
FirstFilesChosen == playlist = <<>> /\ FilesChosen

\* The whole player: every handler.
Next ==
  \/ FilesChosen
  \/ PlayClick
  \/ PrevClick
  \/ NextClick
  \/ ItemClick
  \/ MuteClick
  \/ VolumeInput
  \/ ProgressClick
  \/ LoopClick
  \/ ShuffleClick
  \/ ThumbDown
  \/ PointerMove
  \/ PointerUp
  \/ KeyDown
  \/ BeforeUnload
  \/ LoadedMetadata
  \/ TimeUpdate
  \/ Ended
  \/ MediaError
  \/ PlayFulfilled
  \/ PlayRejected

Spec == Init /\ [][Next]_vars

\* The handlers fall into groups that write disjoint parts of the state; each
\* group is explored exhaustively with the handlers it depends on.

\* Playlist, navigation and object-URL lifecycle.
NextNav ==
  \/ FilesChosen
  \/ PrevClick
  \/ NextClick
  \/ ItemClick
  \/ ShuffleClick
  \/ BeforeUnload

SpecNav == Init /\ [][NextNav]_vars

\* Playback: play / pause, the play() promise, natural end, and every way to
\* switch items while playing.
NextPlay ==
  \/ FirstFilesChosen
  \/ PlayClick
  \/ PrevClick
  \/ NextClick
  \/ ItemClick
  \/ LoopClick
  \/ LoadedMetadata
  \/ TimeUpdate
  \/ Ended
  \/ PlayFulfilled
  \/ PlayRejected

SpecPlay == Init /\ [][NextPlay]_vars

\* Position: seeking, scrubbing and playback progress.
NextSeek ==
  \/ FirstFilesChosen
  \/ PlayClick
  \/ ProgressClick
  \/ ThumbDown
  \/ PointerMove
  \/ PointerUp
  \/ LoadedMetadata
  \/ TimeUpdate
  \/ MediaError

SpecSeek == Init /\ [][NextSeek]_vars

\* Volume, mute and the keyboard shortcuts, on an item that may be switched.
NextVolume ==
  \/ FirstFilesChosen
  \/ NextClick
  \/ MuteClick
  \/ VolumeInput
  \/ KeyDown
  \/ LoadedMetadata

SpecVolume == Init /\ [][NextVolume]_vars

\* The controls that return at once without media or on an image, on items
\* that may be switched.
NextIdle ==
  \/ FirstFilesChosen
  \/ NextClick
  \/ PlayClick
  \/ MuteClick
  \/ VolumeInput
  \/ ProgressClick
  \/ KeyDown

SpecIdle == Init /\ [][NextIdle]_vars

\* ------------------------------------------------------------------ claims
\* The player's own state, without the record of the last event.
prog ==
  <<playlist, currentIndex, isPlaying, loop, shuffle, objectUrls, currentMedia,
    thumbDragging, mounted, error, playlistEl, progressFill, volumeSlider,
    store, nextUrl, revoked, pending>>

\* The claims' own reading of "supported": the type starts with audio/,
\* video/ or image/.
HasMediaPrefix(f) ==
  \E p \in {AudioPrefix, VideoPrefix, ImagePrefix} :
    /\ Len(FileType(f)) >= Len(p)
    /\ \A i \in 1..Len(p) : FileType(f)[i] = p[i]

Accepted(files) == SelectSeq(files, HasMediaPrefix)

\* C1: at most one media element is mounted in every reachable state; right
\* after a handler that loaded (first files, next / previous, natural end,
\* playlist-item click) exactly one is mounted, it is this.currentMedia, it
\* shows playlist[currentIndex], and currentIndex is the index asked for.
C1_OneSession ==
  /\ Cardinality(mounted) <= 1
  /\ outcome.loaded =>
       /\ Cardinality(mounted) = 1
       /\ currentMedia # NoMedia
       /\ mounted = {currentMedia.id}
       /\ currentIndex \in 0..(Len(playlist) - 1)
       /\ currentMedia.file = playlist[currentIndex + 1]
       /\ outcome.file = currentMedia.file
       /\ (event.type = "item" => currentIndex = event.x)
       /\ (event.type = "files" => currentIndex = 0)

\* A natural end switched items: the second or a later element is mounted.
C1_Witness ==
  /\ event.type = "ended"
  /\ outcome.loaded
  /\ currentMedia.id >= 2
  /\ mounted = {currentMedia.id}

\* C2: whenever the playlist is non-empty, 0 <= currentIndex < length.
C2_IndexInRange ==
  Len(playlist) > 0 => currentIndex \in 0..(Len(playlist) - 1)

\* A shuffled step landed on the last index of a three-item playlist.
C2_Witness ==
  /\ shuffle
  /\ event.type \in {"next", "prev"}
  /\ outcome.loaded
  /\ Len(playlist) = 3
  /\ currentIndex = 2

\* C3: a FileList with at least one supported file appends exactly its
\* supported files, in order, to the playlist; the items already there keep
\* their positions.
C3_Append ==
  [][(event'.type = "files" /\ Accepted(event'.files) # <<>>) =>
       /\ Len(playlist') = Len(playlist) + Len(Accepted(event'.files))
       /\ \A i \in 1..Len(playlist) : playlist'[i] = playlist[i]
       /\ \A j \in 1..Len(Accepted(event'.files)) :
            playlist'[Len(playlist) + j] = Accepted(event'.files)[j]]_vars

\* Two files, one of them unsupported, were added to a non-empty playlist.
C3_Witness ==
  /\ event.type = "files"
  /\ Len(event.files) = 2
  /\ Len(Accepted(event.files)) = 1
  /\ Len(playlist) = 3
  /\ playlist[3] = Accepted(event.files)[1]
  /\ error = NoError

\* C4: a FileList without any supported file shows the no-supported-files
\* error and changes neither the playlist, the index, the mounted element,
\* the URL set nor the store.
C4_NoSupportedFiles ==
  [][(event'.type = "files" /\ Accepted(event'.files) = <<>>) =>
       /\ error' = NoFilesMsg
       /\ UNCHANGED <<playlist, currentIndex, currentMedia, mounted,
                      objectUrls, store, isPlaying>>]_vars

\* An unsupported file was offered while the playlist was not empty.
C4_Witness ==
  /\ event.type = "files"
  /\ Len(event.files) > 0
  /\ Accepted(event.files) = <<>>
  /\ error = NoFilesMsg
  /\ Len(playlist) > 0

\* C5: without shuffle, next moves the index to (i + 1) mod n and previous
\* to (i - 1) mod n and loads that item; with an empty playlist both leave
\* the player as it is.
C5_Circular ==
  [][(~shuffle /\ event'.type \in {"next", "prev"}) =>
       IF Len(playlist) = 0 THEN UNCHANGED prog
       ELSE /\ currentIndex' =
                 IF event'.type = "next"
                 THEN (IF currentIndex = Len(playlist) - 1 THEN 0
                       ELSE currentIndex + 1)
                 ELSE (IF currentIndex = 0 THEN Len(playlist) - 1
                       ELSE currentIndex - 1)
            /\ outcome'.loaded
            /\ currentMedia'.file = playlist[currentIndex' + 1]
            /\ playlist' = playlist]_vars

\* previous at index 0 of a three-item playlist wrapped to index 2.
C5_Witness ==
  /\ ~shuffle
  /\ event.type = "prev"
  /\ outcome.loaded
  /\ Len(playlist) = 3
  /\ currentIndex = 2
  /\ nextUrl = 3

\* next at the last index of a three-item playlist wrapped to index 0.
C5_WitnessNext ==
  /\ ~shuffle
  /\ event.type = "next"
  /\ outcome.loaded
  /\ Len(playlist) = 3
  /\ currentIndex = 0

\* C6: a natural end with loop on restarts the same element at position 0
\* and leaves it playing: the index, the playlist, the element, the mounted
\* set and the URL set are unchanged, no URL is created, and isPlaying is
\* true before and after.
C6_LoopRestart ==
  [][(loop /\ event'.type = "ended") =>
       /\ UNCHANGED <<currentIndex, playlist, mounted, objectUrls, nextUrl>>
       /\ currentMedia'.id = currentMedia.id
       /\ currentMedia'.file = currentMedia.file
       /\ currentMedia'.currentTime = 0
       /\ ~currentMedia'.paused
       /\ ~outcome'.loaded
       /\ ~outcome'.threw
       /\ isPlaying
       /\ isPlaying']_vars

\* The element ended with loop on and was restarted.
C6_Witness ==
  /\ event.type = "ended"
  /\ loop
  /\ ~outcome.loaded
  /\ currentMedia.currentTime = 0
  /\ ~currentMedia.paused
  /\ isPlaying

\* C7: right after a handler that loaded an item, isPlaying is false.
C7_LoadResetsPlaying == outcome.loaded => ~isPlaying

\* C8: once the catch callback of a rejected play() has run, the error is
\* shown and isPlaying is false.
C8_FailureClearsPlaying ==
  event.type = "playrejected" => (error = PlayFailedMsg /\ ~isPlaying)

\* C9: cleanupUrls revokes every URL of the set and empties it, without
\* throwing; run again right away it revokes nothing and changes nothing.
C9_ReleaseAll ==
  [][(event'.type = "unload") =>
       /\ objectUrls' = {}
       /\ outcome'.released = objectUrls
       /\ revoked' = revoked \cup objectUrls
       /\ ~outcome'.threw
       /\ (event.type = "unload" => (outcome'.released = {} /\ UNCHANGED prog))]_vars

\* Two URLs were revoked by one cleanup.
C9_Witness ==
  /\ event.type = "unload"
  /\ Cardinality(outcome.released) >= 2
  /\ objectUrls = {}
  /\ outcome.released \subseteq revoked

\* The position the claim expects for a pointer at clientX.
ClampedTarget(x) ==
  IF x <= BarLeft THEN 0
  ELSE IF x >= BarLeft + BarWidth THEN Duration
  ELSE ((x - BarLeft) * Duration) \div BarWidth

\* C10: the position a progress-bar click or the end of a drag writes is the
\* clamped fraction times the duration, within [0, duration], wherever the
\* pointer is.
C10_SeekClamped ==
  (event.type \in {"seek", "up"} /\ outcome.seeked) =>
     /\ outcome.target = ClampedTarget(event.x)
     /\ outcome.target \in 0..Duration
     /\ currentMedia.ready
     /\ currentMedia.currentTime = outcome.target

\* A drag ended right of the bar and the position became the duration.
C10_Witness ==
  /\ event.type = "up"
  /\ event.x > BarLeft + BarWidth
  /\ outcome.seeked
  /\ outcome.target = Duration
  /\ currentMedia.currentTime = Duration

\* A click left of the bar moved a running element back to 0.
C10_WitnessSeek ==
  /\ event.type = "seek"
  /\ event.x < BarLeft
  /\ outcome.seeked
  /\ currentMedia.currentTime = 0
  /\ progressFill = 0
  /\ ~currentMedia.paused

\* C11: the volume stays within [0, 100].  ArrowUp on a playable item sets
\* the slider and the element's volume to the old slider value plus 10, or to
\* 100 if that is more; ArrowDown to the old value minus 10, or to 0 if that
\* is less.  A key pressed while nothing or an image is shown changes nothing
\* of the player's state.
C11_VolumeClamped ==
  [][/\ volumeSlider' \in 0..VolumeMax
     /\ IsPlayable(currentMedia') => currentMedia'.volume \in 0..VolumeMax
     /\ event'.type = "keydown" =>
          IF IsPlayable(currentMedia)
          THEN /\ event'.key = "ArrowUp" =>
                    /\ volumeSlider' = IF volumeSlider + 10 > 100 THEN 100
                                       ELSE volumeSlider + 10
                    /\ currentMedia'.volume = volumeSlider'
               /\ event'.key = "ArrowDown" =>
                    /\ volumeSlider' = IF volumeSlider - 10 < 0 THEN 0
                                       ELSE volumeSlider - 10
                    /\ currentMedia'.volume = volumeSlider'
          ELSE UNCHANGED prog]_vars

\* ArrowUp has been pressed on a playable item and the volume is at its
\* maximum.
C11_Witness ==
  /\ event.type = "keydown"
  /\ event.key = "ArrowUp"
  /\ IsPlayable(currentMedia)
  /\ volumeSlider = VolumeMax
  /\ currentMedia.volume = VolumeMax

\* C12: when files are chosen while no media element exists and at least one
\* of them is supported, the handler loads the first playlist item, whatever
\* index was restored at startup: afterwards currentIndex is 0, the element
\* shows the first item of the playlist, which is the first supported file of
\* the batch, no unsupported file is in the playlist, and the player is not
\* playing.
C12_FirstLoad ==
  [][(event'.type = "files" /\ currentMedia = NoMedia
        /\ Accepted(event'.files) # <<>>) =>
       /\ currentIndex' = 0
       /\ outcome'.loaded
       /\ currentMedia' # NoMedia
       /\ mounted' = {currentMedia'.id}
       /\ playlist' = playlist \o Accepted(event'.files)
       /\ currentMedia'.file = playlist'[1]
       /\ \A i \in 1..Len(playlist') : HasMediaPrefix(playlist'[i])
       /\ ~isPlaying'
       /\ currentMedia'.paused]_vars

\* The first files have been chosen, one of them is unsupported, and the first
\* supported one is shown.
C12_Witness ==
  /\ event.type = "files"
  /\ store.index = <<"0">>
  /\ Accepted(event.files) # <<>>
  /\ Len(Accepted(event.files)) < Len(event.files)
  /\ playlist = Accepted(event.files)
  /\ currentIndex = 0
  /\ currentMedia.file = playlist[1]

\* C13: the set of object URLs only grows until 'beforeunload'.  A handler
\* that loads adds exactly one URL, one never created before; a handler that
\* does not load leaves the set alone; only the unload handler revokes.  Every
\* URL created so far is either in the set or revoked, never both.
C13_UrlsAppendOnly ==
  [][/\ event'.type # "unload" =>
          /\ revoked' = revoked
          /\ IF outcome'.loaded
             THEN /\ objectUrls' = objectUrls \cup {nextUrl}
                  /\ nextUrl \notin objectUrls \cup revoked
                  /\ nextUrl' = nextUrl + 1
                  /\ currentMedia'.id = nextUrl
             ELSE objectUrls' = objectUrls /\ nextUrl' = nextUrl
     /\ objectUrls' \cap revoked' = {}
     /\ objectUrls' \cup revoked' = 1..(nextUrl' - 1)]_vars

\* A second item has been loaded after an unload that did not close the page:
\* one URL is revoked, the other one is held.
C13_Witness ==
  /\ outcome.loaded
  /\ revoked = {1}
  /\ objectUrls = {2}

\* C14: choosing files of which at least one is supported never changes
\* currentIndex, not even the first time after a start that restored an
\* index.
C14_AddKeepsIndex ==
  [][(event'.type = "files" /\ Accepted(event'.files) # <<>>) =>
       currentIndex' = currentIndex]_vars

\* C14, as the handler behaves: choosing files of which at least one is
\* supported leaves currentIndex alone while a media element exists, and sets
\* it to 0 while none exists.
C14_AddKeepsIndexOfSession ==
  [][(event'.type = "files" /\ Accepted(event'.files) # <<>>) =>
       /\ currentIndex' = IF currentMedia = NoMedia THEN 0 ELSE currentIndex
       /\ currentMedia # NoMedia => (currentMedia' = currentMedia /\ ~outcome'.loaded)]_vars

\* Files have been added to a playlist whose second item is shown: the index
\* is still 1 and the element is the one loaded before.
C14_Witness ==
  /\ event.type = "files"
  /\ Accepted(event.files) # <<>>
  /\ Len(playlist) > Len(Accepted(event.files))
  /\ ~outcome.loaded
  /\ currentIndex = 1
  /\ currentMedia.file = playlist[2]

\* C15: a handler that loads changes neither loop nor shuffle, and an audio /
\* video item that replaces a muted audio / video item is muted as well, one
\* that replaces an unmuted item is unmuted.
C15_LoadKeepsFlags ==
  [][outcome'.loaded =>
       /\ loop' = loop
       /\ shuffle' = shuffle
       /\ (IsPlayable(currentMedia) /\ IsPlayable(currentMedia')) =>
            currentMedia'.muted = currentMedia.muted]_vars

\* C16: pressing the thumb sets thumbDragging and nothing else.  A pointer
\* move changes at most the width of the progress fill, and only during a
\* drag.  Releasing the pointer during a drag clears thumbDragging and, on a
\* playable item whose duration is known, sets the position to the one a
\* progress-bar click at the same place sets; it changes nothing else.
\* Releasing the pointer outside a drag changes nothing.  None of the three
\* changes isPlaying, currentIndex, the playlist, or which element is shown.
C16_Scrub ==
  [][/\ event'.type = "thumbdown" =>
          /\ thumbDragging'
          /\ UNCHANGED <<playlist, currentIndex, isPlaying, loop, shuffle,
                         objectUrls, currentMedia, mounted, error, playlistEl,
                         progressFill, volumeSlider, store, nextUrl, revoked,
                         pending>>
     /\ event'.type = "move" =>
          /\ UNCHANGED <<playlist, currentIndex, isPlaying, loop, shuffle,
                         objectUrls, currentMedia, thumbDragging, mounted,
                         error, playlistEl, volumeSlider, store, nextUrl,
                         revoked, pending>>
          /\ ~thumbDragging => progressFill' = progressFill
     /\ event'.type = "up" =>
          IF ~thumbDragging THEN UNCHANGED prog
          ELSE /\ ~thumbDragging'
               /\ UNCHANGED <<playlist, currentIndex, isPlaying, loop, shuffle,
                              objectUrls, mounted, error, playlistEl,
                              progressFill, volumeSlider, store, nextUrl,
                              revoked, pending>>
               /\ currentMedia' =
                    IF IsPlayable(currentMedia) /\ currentMedia.ready
                    THEN [currentMedia EXCEPT !.currentTime = ClampedTarget(event'.x)]
                    ELSE currentMedia
               /\ outcome'.seeked = (IsPlayable(currentMedia) /\ currentMedia.ready)]_vars

\* A drag on a playing item has ended in the middle of the bar after the fill
\* was dragged to the right end: the position is the middle, the item is
\* still playing and the drag is over.
C16_Witness ==
  /\ event.type = "up"
  /\ event.x = BarLeft + 1
  /\ outcome.seeked
  /\ ~thumbDragging
  /\ isPlaying
  /\ ~currentMedia.paused
  /\ currentMedia.currentTime = ClampedTarget(BarLeft + 1)
  /\ progressFill = 100

\* localStorage holds the {name, type, size} of every playlist item, in
\* playlist order, and the decimal digits of currentIndex.
StoreHoldsState ==
  /\ store.meta.kind = "json"
  /\ Len(store.meta.items) = Len(playlist)
  /\ \A i \in 1..Len(playlist) :
       /\ store.meta.items[i].name = FileName(playlist[i])
       /\ store.meta.items[i].type = FileType(playlist[i])
       /\ store.meta.items[i].size = FileSize(playlist[i])
  /\ IsDigits(store.index)
  /\ DigitsToNat(store.index) = currentIndex

\* C17: after every handler that changes the playlist or currentIndex, after
\* accepted files, next, previous, a playlist-item click and a natural end
\* with loop off, localStorage holds the metadata of exactly the current
\* playlist and the string of currentIndex; and once it does, it keeps doing
\* so whatever handler runs.
C17_StoreInSync ==
  [][/\ (\/ playlist' # playlist
         \/ currentIndex' # currentIndex
         \/ event'.type = "files" /\ Accepted(event'.files) # <<>>
         \/ event'.type \in {"next", "prev", "item"} /\ Len(playlist) > 0
         \/ event'.type = "ended" /\ ~loop) => StoreHoldsState'
     /\ StoreHoldsState => StoreHoldsState']_vars

\* A natural end has moved on to the second of two items, and localStorage
\* holds both items and the index 1.
C17_Witness ==
  /\ event.type = "ended"
  /\ outcome.loaded
  /\ currentIndex = 1
  /\ Len(playlist) = 2
  /\ store.index = <<"1">>
  /\ Len(store.meta.items) = 2
  /\ StoreHoldsState

\* C18: the rejection of a play() promise that belongs to an element that has
\* been replaced since runs the catch callback without an exception, and the
\* callback changes neither the playlist, currentIndex, the current element,
\* what is mounted, nor the object URLs.
C18_StaleRejection ==
  [][(event'.type = "playrejected" /\ event'.x # currentMedia.id) =>
       /\ ~outcome'.threw
       /\ UNCHANGED <<playlist, currentIndex, currentMedia, mounted,
                      objectUrls, revoked, nextUrl, store>>
       /\ pending' = pending \ {event'.x}]_vars

\* play() was called on the first element, the player has moved on to a
\* second one, and the first one's promise has been rejected since.
C18_Witness ==
  /\ event.type = "playrejected"
  /\ event.x = 1
  /\ currentMedia.id = 2
  /\ mounted = {2}
  /\ error = PlayFailedMsg

\* C19: while there is no media element or it shows an image, the play
\* button, the mute button, a progress-bar click and every key change nothing
\* of the player's state, and a move of the volume slider changes the slider
\* only: isPlaying, the element with its muted flag, volume and position,
\* currentIndex and the playlist stay as they are.
C19_IdleNoOps ==
  [][(currentMedia = NoMedia \/ currentMedia.tag = "IMG") =>
       /\ event'.type \in {"play", "mute", "seek", "keydown"} =>
            UNCHANGED prog /\ ~outcome'.threw
       /\ event'.type = "volume" =>
            /\ UNCHANGED <<playlist, currentIndex, isPlaying, loop, shuffle,
                           objectUrls, currentMedia, thumbDragging, mounted,
                           error, playlistEl, progressFill, store, nextUrl,
                           revoked, pending>>
            /\ ~outcome'.threw]_vars

\* The space key has been pressed while an image is shown, and nothing is
\* playing or about to.
C19_Witness ==
  /\ event.type = "keydown"
  /\ event.key = " "
  /\ currentMedia.tag = "IMG"
  /\ ~isPlaying
  /\ pending = {}

\* C20: every file in the playlist has a type that starts with audio/, video/
\* or image/ and gets an element of its own kind, no load has ended in
\* 'Unsupported file type', and whenever the playlist is non-empty a media
\* element exists and is mounted.
C20_PlaylistPlayable ==
  /\ \A i \in 1..Len(playlist) :
       /\ HasMediaPrefix(playlist[i])
       /\ TagOf(MajorType(playlist[i])) \in {"AUDIO", "VIDEO", "IMG"}
  /\ error # UnsupportedMsg
  /\ (event.type \in {"next", "prev", "item"} /\ Len(playlist) > 0) =>
       outcome.loaded
  /\ Len(playlist) > 0 =>
       /\ currentMedia # NoMedia
       /\ currentMedia.tag \in {"AUDIO", "VIDEO", "IMG"}
       /\ mounted = {currentMedia.id}

\* An image of the playlist has been loaded by a click on its item, next to
\* an audio file.
C20_Witness ==
  /\ event.type = "item"
  /\ outcome.loaded
  /\ currentMedia.tag = "IMG"
  /\ \E i \in 1..Len(playlist) : TagOf(MajorType(playlist[i])) = "AUDIO"

====
